---------------------------- MODULE Spec2Model ----------------------------
(***************************************************************************)
(* A state-machine model of the two batch jobs of the repository:          *)
(*   Job A (src/etl.py)    the dimensional ETL run: preload of the         *)
(*                         Location dimension from the region file, the    *)
(*                         sales loop, the final commit and the teardown;  *)
(*   Job B (src/upload.py) the gzip bulk loader.                           *)
(* A Python dict is a function whose domain is the set of its keys.  A     *)
(* Python string that the code indexes or splits (the timestamp) is a      *)
(* sequence of one-character strings.  The warehouse is a function from    *)
(* table name to the sequence of rows written in the open transaction;     *)
(* `durable` is what the last commit made permanent.                       *)
(***************************************************************************)
EXTENDS Integers, Sequences, FiniteSets, TLC

VARIABLES
    job,        \* which of the two scripts this run executes: "A" or "B"
    pc,         \* position of the script
    err,        \* the exception that ended the script, "none" if none
    csv,        \* rows the CSVSource yields (region file), in file order
    ri,         \* number of region rows already consumed
    sales,      \* rows the SQLSource yields (sales relation), in order
    si,         \* index of the sales row being processed (0: none yet)
    row,        \* the row dict of the sales loop
    dw,         \* warehouse tables as seen by the open transaction
    durable,    \* warehouse tables as of the last commit
    commits,    \* number of commits issued on the warehouse connection
    fileOpen,   \* region_file_handle is open
    dwOpen,     \* the warehouse connection is open
    salesOpen,  \* the sales connection is open
    lines,      \* decompressed lines of part-00000.gz, in order
    li,         \* number of lines the loop of Job B has taken
    copied      \* records the bulk-copy channel has accepted, in order

vars == <<job, pc, err, csv, ri, sales, si, row, dw, durable, commits,
          fileOpen, dwOpen, salesOpen, lines, li, copied>>

\* Longest region file, sales relation and gzip input that are explored.
MaxRef == 2
MaxSales == 3
MaxLines == 3

\* Python's None, as lookup returns it; surrogate keys are integers >= 1.
None == -1

(***************************************************************************)
(* Python helpers                                                          *)
(***************************************************************************)

\* d[k] = v on a dict.
SetItem(d, k, v) == [x \in (DOMAIN d) \cup {k} |-> IF x = k THEN v ELSE d[x]]

\* d.get(k)
Get(d, k) == IF k \in DOMAIN d THEN d[k] ELSE None

\* The dict restricted to the columns cols (the values an INSERT binds).
Project(d, cols) == [x \in cols |-> d[x]]

\* `not v` for the values a key can take: None and 0 are falsy.
Falsy(v) == v = None \/ v = 0

Range(s) == {s[i] : i \in 1..Len(s)}

SetMax(S) == CHOOSE m \in S : \A x \in S : x <= m

\* All sequences over S of length at most n.
SeqUpTo(S, n) == UNION {[1..k -> S] : k \in 0..n}

\* str.split('/'): the parts between the separators, empty parts kept.
RECURSIVE SplitAcc(_, _, _, _)
SplitAcc(s, i, cur, acc) ==
    IF i > Len(s) THEN Append(acc, cur)
    ELSE IF s[i] = "/" THEN SplitAcc(s, i + 1, <<>>, Append(acc, cur))
    ELSE SplitAcc(s, i + 1, Append(cur, s[i]), acc)

split(s) == SplitAcc(s, 1, <<>>, <<>>)

(***************************************************************************)
(* The warehouse schema objects of etl.py                                  *)
(***************************************************************************)

name_mapping == <<"book", "genre", "city", "timestamp", "sale">>

book_dimension ==
    [name |-> "book", key |-> "bookid",
     attributes |-> {"book", "genre"}, lookupatts |-> {"book", "genre"}]

time_dimension ==
    [name |-> "time", key |-> "timeid",
     attributes |-> {"day", "month", "year"},
     lookupatts |-> {"day", "month", "year"}]

location_dimension ==
    [name |-> "location", key |-> "locationid",
     attributes |-> {"city", "region"}, lookupatts |-> {"city"}]

fact_table ==
    [name |-> "facttable", keyrefs |-> {"bookid", "locationid", "timeid"},
     measures |-> {"sale"}]

TableNames == {"book", "time", "location", "facttable"}

EmptyWarehouse == [t \in TableNames |-> <<>>]

(***************************************************************************)
(* Dimension and FactTable operations (pygrametl.tables)                   *)
(***************************************************************************)

\* Keys of the rows of the dimension's table that agree with r on every
\* lookup attribute.
MatchingKeys(dim, db, r) ==
    {db[dim.name][i][dim.key] : i \in
        {j \in 1..Len(db[dim.name]) :
            \A a \in dim.lookupatts : db[dim.name][j][a] = r[a]}}

\* Dimension.lookup: the possible results.  The key of a matching row, or
\* None when there is none; with several matching rows the store returns
\* the first row of an unordered query, which may be any of them.
Dimension_lookup(dim, db, r) ==
    IF MatchingKeys(dim, db, r) = {} THEN {None} ELSE MatchingKeys(dim, db, r)

\* The default idfinder: one more than the largest key handed out.
NextId(dim, db) ==
    IF db[dim.name] = <<>> THEN 1
    ELSE SetMax({db[dim.name][i][dim.key] : i \in 1..Len(db[dim.name])}) + 1

\* The key Dimension.insert uses for r: the one r carries, else a new one.
InsertKey(dim, db, r) ==
    IF Get(r, dim.key) = None THEN NextId(dim, db) ELSE r[dim.key]

\* Dimension.insert: one row appended, no check for an existing match.
Dimension_insert(dim, db, r) ==
    [db EXCEPT ![dim.name] =
        Append(@, Project(SetItem(r, dim.key, InsertKey(dim, db, r)),
                          {dim.key} \cup dim.attributes))]

\* FactTable.insert: one row appended, whatever the keys are.
FactTable_insert(ft, db, r) ==
    [db EXCEPT ![ft.name] = Append(@, Project(r, ft.keyrefs \cup ft.measures))]

(***************************************************************************)
(* Inputs                                                                  *)
(***************************************************************************)

\* Rows of the region file: a city listed once, a city listed with two
\* regions, so a file can name the same city in more than one row.
RegionRows ==
    { [city |-> "Springfield", region |-> "Midwest"],
      [city |-> "Springfield", region |-> "East"],
      [city |-> "Shelbyville", region |-> "Midwest"] }

TsA == <<"1", "/", "2", "/", "3">>
TsALong == <<"1", "/", "2", "/", "3", "/", "9">>
TsB == <<"2", "/", "2", "/", "3">>
TsShort == <<"1", "/", "2">>

\* Tuples of the sales relation, in the column order of name_mapping.
SalesTuples ==
    { <<"Dune", "SciFi", "Springfield", TsA, 3>>,
      <<"Dune", "SciFi", "Shelbyville", TsALong, 5>>,
      <<"Dune", "Novel", "Springfield", TsB, 3>>,
      <<"Emma", "Novel", "Atlantis", TsA, 5>>,
      <<"Emma", "Novel", "Springfield", TsShort, 3>> }

\* SQLSource: the positional values zipped with the names.
SQLSourceRow(t) ==
    [n \in Range(name_mapping) |->
        t[CHOOSE i \in 1..Len(name_mapping) : name_mapping[i] = n]]

LineSet == {"l1", "l2"}


(***************************************************************************)
(* Dimension.ensure: lookup, and insert only when lookup found nothing.    *)
(* The possible outcomes, each the key returned and the tables afterwards. *)
(***************************************************************************)
Dimension_ensure(dim, db, r) ==
    { IF k = None
        THEN [key |-> InsertKey(dim, db, r), db |-> Dimension_insert(dim, db, r)]
        ELSE [key |-> k, db |-> db]
      : k \in Dimension_lookup(dim, db, r) }

(***************************************************************************)
(* The bulk-copy channel of Job B (psycopg2 cursor.copy_from)              *)
(***************************************************************************)

\* A line read from the gzip stream is a bytes object; a file object is
\* what has read() and readline().
PyBytes(b) == [type |-> "bytes", content |-> <<b>>]

PyAttrs(obj) ==
    IF obj.type = "file" THEN {"read", "readline", "close"}
    ELSE {"decode", "split", "strip"}

HasAttr(obj, a) == a \in PyAttrs(obj)

\* cursor.copy_from(file, table): its first argument must have both read()
\* and readline(), else TypeError is raised and nothing is sent; a file
\* object is read to its end and every record of it is sent.
copy_from(chan, obj) ==
    IF HasAttr(obj, "read") /\ HasAttr(obj, "readline")
    THEN [raised |-> "none", chan |-> chan \o obj.content]
    ELSE [raised |-> "TypeError", chan |-> chan]

(***************************************************************************)
(* Initial state: the connections and the region file are open, the        *)
(* schema objects are built, the warehouse tables are empty, nothing has   *)
(* been read.                                                              *)
(***************************************************************************)
Init ==
    /\ job \in {"A", "B"}
    /\ pc = IF job = "A" THEN "preload" ELSE "copy"
    /\ err = "none"
    /\ csv \in IF job = "A" THEN SeqUpTo(RegionRows, MaxRef) ELSE {<<>>}
    /\ ri = 0
    /\ sales \in IF job = "A"
                 THEN {[i \in 1..Len(s) |-> SQLSourceRow(s[i])] :
                          s \in SeqUpTo(SalesTuples, MaxSales)}
                 ELSE {<<>>}
    /\ si = 0
    /\ row = <<>>
    /\ dw = EmptyWarehouse
    /\ durable = EmptyWarehouse
    /\ commits = 0
    /\ fileOpen = (job = "A")
    /\ dwOpen = TRUE
    /\ salesOpen = (job = "A")
    /\ lines \in IF job = "B" THEN SeqUpTo(LineSet, MaxLines) ELSE {<<>>}
    /\ li = 0
    /\ copied = <<>>

JobAFrame == UNCHANGED <<job, csv, sales, lines, li, copied>>

(***************************************************************************)
(* Job A                                                                   *)
(***************************************************************************)

\* etl.py:104, one turn of the comprehension: insert the next region row.
PreloadRow ==
    /\ job = "A" /\ pc = "preload" /\ ri < Len(csv)
    /\ dw' = Dimension_insert(location_dimension, dw, csv[ri + 1])
    /\ ri' = ri + 1
    /\ UNCHANGED <<pc, err, si, row, durable, commits, fileOpen, dwOpen, salesOpen>>
    /\ JobAFrame

\* etl.py:107, after the last region row.
CloseRegionFile ==
    /\ job = "A" /\ pc = "preload" /\ ri = Len(csv)
    /\ fileOpen' = FALSE
    /\ pc' = "fetch"
    /\ UNCHANGED <<err, ri, si, row, dw, durable, commits, dwOpen, salesOpen>>
    /\ JobAFrame

\* etl.py:116, the head of the sales loop: the next row, or the loop ends.
FetchSalesRow ==
    /\ job = "A" /\ pc = "fetch"
    /\ IF si < Len(sales)
       THEN /\ si' = si + 1
            /\ row' = sales[si + 1]
            /\ pc' = "split"
       ELSE /\ pc' = "commit"
            /\ UNCHANGED <<si, row>>
    /\ UNCHANGED <<err, ri, dw, durable, commits, fileOpen, dwOpen, salesOpen>>
    /\ JobAFrame

\* split_timestamp with the month and the day taken from each other's part.
split_timestamp_DayMonthSwapped(r) ==
    LET timestamp_split == split(r["timestamp"])
        r1 == SetItem(r, "year", timestamp_split[1])
        r2 == IF Len(timestamp_split) >= 3
              THEN SetItem(r1, "month", timestamp_split[3]) ELSE r1
        r3 == IF Len(timestamp_split) >= 3
              THEN SetItem(r2, "day", timestamp_split[2]) ELSE r2
    IN  [row |-> r3,
         raised |-> IF Len(timestamp_split) >= 3 THEN "none" ELSE "IndexError"]

\* etl.py:80-93: the three assignments in order; an index past the last
\* part raises IndexError after the assignments before it were made.
split_timestamp(r) ==
    LET timestamp_split == split(r["timestamp"])
        r1 == SetItem(r, "year", timestamp_split[1])
        r2 == IF Len(timestamp_split) >= 2
              THEN SetItem(r1, "month", timestamp_split[2]) ELSE r1
        r3 == IF Len(timestamp_split) >= 3
              THEN SetItem(r2, "day", timestamp_split[3]) ELSE r2
    IN  [row |-> r3,
         raised |-> IF Len(timestamp_split) >= 3 THEN "none" ELSE "IndexError"]

\* etl.py:119
SplitTimestamp ==
    /\ job = "A" /\ pc = "split"
    /\ row' = split_timestamp(row).row
    /\ err' = split_timestamp(row).raised
    /\ pc' = IF split_timestamp(row).raised = "none" THEN "ensure_book" ELSE "aborted"
    /\ UNCHANGED <<ri, si, dw, durable, commits, fileOpen, dwOpen, salesOpen>>
    /\ JobAFrame

\* The Book key resolved by insert instead of ensure.
EnsureBook_AlwaysInsert ==
    /\ job = "A" /\ pc = "ensure_book"
    /\ dw' = Dimension_insert(book_dimension, dw, row)
    /\ row' = SetItem(row, "bookid", InsertKey(book_dimension, dw, row))
    /\ pc' = "ensure_time"
    /\ UNCHANGED <<err, ri, si, durable, commits, fileOpen, dwOpen, salesOpen>>
    /\ JobAFrame

\* etl.py:123
EnsureBook ==
    /\ job = "A" /\ pc = "ensure_book"
    /\ \E o \in Dimension_ensure(book_dimension, dw, row) :
          /\ dw' = o.db
          /\ row' = SetItem(row, "bookid", o.key)
    /\ pc' = "ensure_time"
    /\ UNCHANGED <<err, ri, si, durable, commits, fileOpen, dwOpen, salesOpen>>
    /\ JobAFrame

\* etl.py:124
EnsureTime ==
    /\ job = "A" /\ pc = "ensure_time"
    /\ \E o \in Dimension_ensure(time_dimension, dw, row) :
          /\ dw' = o.db
          /\ row' = SetItem(row, "timeid", o.key)
    /\ pc' = "lookup_location"
    /\ UNCHANGED <<err, ri, si, durable, commits, fileOpen, dwOpen, salesOpen>>
    /\ JobAFrame

\* The Location key resolved get-or-create: a miss adds a Location row.
LookupLocation_InsertOnMiss ==
    /\ job = "A" /\ pc = "lookup_location"
    /\ \E o \in Dimension_ensure(location_dimension, dw,
                                 SetItem(row, "region", "Unknown")) :
          /\ dw' = o.db
          /\ row' = SetItem(row, "locationid", o.key)
    /\ pc' = "check_location"
    /\ UNCHANGED <<err, ri, si, durable, commits, fileOpen, dwOpen, salesOpen>>
    /\ JobAFrame

\* etl.py:133
LookupLocation ==
    /\ job = "A" /\ pc = "lookup_location"
    /\ \E k \in Dimension_lookup(location_dimension, dw, row) :
          row' = SetItem(row, "locationid", k)
    /\ pc' = "check_location"
    /\ UNCHANGED <<err, ri, si, dw, durable, commits, fileOpen, dwOpen, salesOpen>>
    /\ JobAFrame

\* The check skipping a sales row without a location instead of raising.
CheckLocation_SkipRow ==
    /\ job = "A" /\ pc = "check_location"
    /\ pc' = IF Falsy(row["locationid"]) THEN "fetch" ELSE "insert_fact"
    /\ UNCHANGED <<err, ri, si, row, dw, durable, commits, fileOpen, dwOpen, salesOpen>>
    /\ JobAFrame

\* The check left out: every sales row goes on to the fact table.
CheckLocation_NoRaise ==
    /\ job = "A" /\ pc = "check_location"
    /\ pc' = "insert_fact"
    /\ UNCHANGED <<err, ri, si, row, dw, durable, commits, fileOpen, dwOpen, salesOpen>>
    /\ JobAFrame

\* etl.py:138-139
CheckLocation ==
    /\ job = "A" /\ pc = "check_location"
    /\ IF Falsy(row["locationid"])
       THEN err' = "ValueError" /\ pc' = "aborted"
       ELSE err' = err /\ pc' = "insert_fact"
    /\ UNCHANGED <<ri, si, row, dw, durable, commits, fileOpen, dwOpen, salesOpen>>
    /\ JobAFrame

\* The fact insert followed by a commit of its own.
InsertFact_CommitEach ==
    /\ job = "A" /\ pc = "insert_fact"
    /\ dw' = FactTable_insert(fact_table, dw, row)
    /\ durable' = dw'
    /\ commits' = commits + 1
    /\ pc' = "fetch"
    /\ UNCHANGED <<err, ri, si, row, fileOpen, dwOpen, salesOpen>>
    /\ JobAFrame

\* etl.py:146
InsertFact ==
    /\ job = "A" /\ pc = "insert_fact"
    /\ dw' = FactTable_insert(fact_table, dw, row)
    /\ pc' = "fetch"
    /\ UNCHANGED <<err, ri, si, row, durable, commits, fileOpen, dwOpen, salesOpen>>
    /\ JobAFrame

\* etl.py:151
Commit ==
    /\ job = "A" /\ pc = "commit"
    /\ durable' = dw
    /\ commits' = commits + 1
    /\ pc' = "close_dw"
    /\ UNCHANGED <<err, ri, si, row, dw, fileOpen, dwOpen, salesOpen>>
    /\ JobAFrame

\* etl.py:152
CloseWarehouse ==
    /\ job = "A" /\ pc = "close_dw"
    /\ dwOpen' = FALSE
    /\ pc' = "close_sales"
    /\ UNCHANGED <<err, ri, si, row, dw, durable, commits, fileOpen, salesOpen>>
    /\ JobAFrame

\* etl.py:155
CloseSales ==
    /\ job = "A" /\ pc = "close_sales"
    /\ salesOpen' = FALSE
    /\ pc' = "done"
    /\ UNCHANGED <<err, ri, si, row, dw, durable, commits, fileOpen, dwOpen>>
    /\ JobAFrame

(***************************************************************************)
(* Job B                                                                   *)
(***************************************************************************)

JobBFrame ==
    UNCHANGED <<job, csv, ri, sales, si, row, dw, durable, commits,
                fileOpen, dwOpen, salesOpen, lines>>

\* upload.py:10-11, one turn of the loop: the next line goes to copy_from.
CopyLine ==
    /\ job = "B" /\ pc = "copy" /\ li < Len(lines)
    /\ li' = li + 1
    /\ copied' = copy_from(copied, PyBytes(lines[li + 1])).chan
    /\ err' = copy_from(copied, PyBytes(lines[li + 1])).raised
    /\ pc' = IF copy_from(copied, PyBytes(lines[li + 1])).raised = "none"
             THEN "copy" ELSE "aborted"
    /\ JobBFrame

\* upload.py:9-10: the input is exhausted and the with block is left.
EndOfInput ==
    /\ job = "B" /\ pc = "copy" /\ li = Len(lines)
    /\ pc' = "done"
    /\ UNCHANGED <<err, li, copied>>
    /\ JobBFrame

Next ==
    \/ PreloadRow
    \/ CloseRegionFile
    \/ FetchSalesRow
    \/ SplitTimestamp
    \/ EnsureBook
    \/ EnsureTime
    \/ LookupLocation
    \/ CheckLocation
    \/ InsertFact
    \/ Commit
    \/ CloseWarehouse
    \/ CloseSales
    \/ CopyLine
    \/ EndOfInput

Spec == Init /\ [][Next]_vars

(***************************************************************************)
(* Properties                                                              *)
(***************************************************************************)

Facts == dw["facttable"]

Rows(t) == Range(dw[t])

\* Two rows agree on every column of atts.
Agree(r1, r2, atts) == \A a \in atts : r1[a] = r2[a]

\* No two rows of the dimension's table agree on all lookup attributes.
OneRowPerLookup(dim) ==
    \A i, j \in 1..Len(dw[dim.name]) :
        Agree(dw[dim.name][i], dw[dim.name][j], dim.lookupatts) => i = j

\* The year, month and day a timestamp of the inputs stands for.
YearMonthDay(ts) ==
    CASE ts = TsA -> [year |-> <<"1">>, month |-> <<"2">>, day |-> <<"3">>]
      [] ts = TsALong -> [year |-> <<"1">>, month |-> <<"2">>, day |-> <<"3">>]
      [] ts = TsB -> [year |-> <<"2">>, month |-> <<"2">>, day |-> <<"3">>]

\* While Job A runs, fact row i was made from sales row i: a row that makes
\* no fact row ends the run.

\* C1: ensure is idempotent on Book and Time.  Sales rows with the same
\* book and genre got the same bookid, rows whose timestamps give the same
\* year, month and day got the same timeid (the row in hand included), and
\* neither dimension holds two rows with the same lookup-attribute values.
C1_EnsureIdempotent ==
    job = "A" =>
        /\ OneRowPerLookup(book_dimension)
        /\ OneRowPerLookup(time_dimension)
        /\ \A i, j \in 1..Len(Facts) :
              /\ Agree(sales[i], sales[j], {"book", "genre"})
                    => Facts[i]["bookid"] = Facts[j]["bookid"]
              /\ YearMonthDay(sales[i]["timestamp"]) = YearMonthDay(sales[j]["timestamp"])
                    => Facts[i]["timeid"] = Facts[j]["timeid"]
        /\ \A i \in 1..Len(Facts) :
              /\ ("bookid" \in DOMAIN row /\ Agree(sales[i], row, {"book", "genre"}))
                    => row["bookid"] = Facts[i]["bookid"]
              /\ ("timeid" \in DOMAIN row
                  /\ YearMonthDay(sales[i]["timestamp"]) = YearMonthDay(row["timestamp"]))
                    => row["timeid"] = Facts[i]["timeid"]

\* Two different sales rows with the same book and genre were both loaded,
\* and the Book dimension holds one row.
C1_Witness ==
    /\ job = "A" /\ Len(Facts) = 2
    /\ sales[1] # sales[2]
    /\ Agree(sales[1], sales[2], {"book", "genre"})
    /\ Len(dw["book"]) = 1

\* C2: when the Location lookup returned None the next step raises the
\* ValueError and ends the run with the fact table as it was; the run then
\* holds one fact row per earlier sales row and none for the failing row.
C2_AbortOnMissingLocation ==
    [][ /\ (pc = "check_location" /\ row["locationid"] = None)
            => (pc' = "aborted" /\ err' = "ValueError" /\ dw' = dw)
        /\ (pc' = "aborted" /\ err' = "ValueError")
            => (/\ Len(dw'["facttable"]) = si' - 1
                /\ \A l \in Range(dw'["location"]) : l["city"] # row'["city"])
        /\ pc = "aborted" => UNCHANGED vars ]_vars

\* The run loaded its first sales row and aborted on the second, with a
\* third row still unread.
C2_Witness ==
    /\ job = "A" /\ pc = "aborted" /\ err = "ValueError"
    /\ si = 2 /\ Len(sales) = 3 /\ Len(Facts) = 1
    /\ row["locationid"] = None

\* C3: after the preload, a lookup on the city of any loaded row returns
\* the key that row was given, whatever the region file holds.
C3_PreloadLookup ==
    (job = "A" /\ pc # "preload") =>
        /\ \A i \in 1..Len(csv) :
            Dimension_lookup(location_dimension, dw, csv[i])
                = {dw["location"][i]["locationid"]}
        /\ \A t \in SalesTuples :
            (\A i \in 1..Len(csv) : csv[i]["city"] # SQLSourceRow(t)["city"])
                => Dimension_lookup(location_dimension, dw, SQLSourceRow(t)) = {None}

\* C4: in each dimension the keys are pairwise distinct, a row keeps its
\* key, and no two rows agree on all lookup attributes.
C4_DimensionInvariant ==
    [][ \A dim \in {book_dimension, time_dimension, location_dimension} :
          /\ \A i \in 1..Len(dw[dim.name]) :
                /\ i <= Len(dw'[dim.name])
                /\ dw'[dim.name][i] = dw[dim.name][i]
          /\ \A i, j \in 1..Len(dw'[dim.name]) :
                \/ i = j
                \/ /\ dw'[dim.name][i][dim.key] # dw'[dim.name][j][dim.key]
                   /\ ~Agree(dw'[dim.name][i], dw'[dim.name][j], dim.lookupatts)
      ]_vars

\* C5: at most one commit, issued only once every sales row has made its
\* fact row; a finished run has committed, and an aborted run has not and
\* has made nothing durable.
C5_SingleFinalCommit ==
    job = "A" =>
        /\ commits <= 1
        /\ commits = 1 =>
              /\ pc \in {"close_dw", "close_sales", "done"}
              /\ si = Len(sales) /\ Len(Facts) = Len(sales)
              /\ durable = dw
        /\ commits = 0 => durable = EmptyWarehouse
        /\ pc = "done" => commits = 1
        /\ pc = "aborted" => commits = 0

\* An aborted run that had preloaded a location, ensured dimension rows and
\* written a fact row, none of it durable.
C5_Witness ==
    /\ job = "A" /\ pc = "aborted" /\ err = "ValueError"
    /\ Len(Facts) = 1 /\ dw["location"] # <<>> /\ dw["book"] # <<>>
    /\ durable = EmptyWarehouse

\* C6: a finished run holds one fact row per sales row, in order, each with
\* the sale of its sales row and the keys of a Book row with its book and
\* genre, a Time row with its year, month and day, and a Location row with
\* its city.
C6_FactPerSalesRow ==
    (job = "A" /\ pc = "done") =>
        /\ Len(Facts) = Len(sales)
        /\ \A i \in 1..Len(Facts) :
              /\ Facts[i]["sale"] = sales[i]["sale"]
              /\ \E b \in Rows("book") :
                    /\ b["bookid"] = Facts[i]["bookid"]
                    /\ Agree(b, sales[i], {"book", "genre"})
              /\ \E t \in Rows("time") :
                    /\ t["timeid"] = Facts[i]["timeid"]
                    /\ Agree(t, YearMonthDay(sales[i]["timestamp"]),
                             {"year", "month", "day"})
              /\ \E l \in Rows("location") :
                    /\ l["locationid"] = Facts[i]["locationid"]
                    /\ Agree(l, sales[i], {"city"})

\* A finished run over two identical sales rows, with two fact rows.
C6_Witness ==
    /\ job = "A" /\ pc = "done"
    /\ Len(sales) = 2 /\ sales[1] = sales[2]
    /\ Len(Facts) = 2

\* C7: when the run has ended, normally or by an exception, the warehouse
\* connection is closed.
C7_ConnectionReleased ==
    (job = "A" /\ pc \in {"done", "aborted"}) => ~dwOpen

\* C8: the step that performs the Location lookup leaves every warehouse
\* table as it was, committed or not, whether or not a row matched.
C8_LookupReadOnly ==
    [][ pc = "lookup_location" => (dw' = dw /\ durable' = durable) ]_vars

\* The lookup has run on a non-empty Location table and found nothing.
C8_Witness ==
    /\ job = "A" /\ pc = "check_location"
    /\ row["locationid"] = None
    /\ dw["location"] # <<>>

\* C9: every fact row has a key other than None in each foreign-key column.
C9_FactKeysNotNull ==
    \A i \in 1..Len(Facts) :
        \A k \in fact_table.keyrefs :
            k \in DOMAIN Facts[i] /\ Facts[i][k] # None

\* A fact row was written, and the next sales row had no location.
C9_Witness ==
    /\ job = "A" /\ Len(Facts) = 1
    /\ pc = "aborted" /\ err = "ValueError"

\* C10: when Job B has ended, the records the bulk-copy channel accepted
\* are the decompressed lines, each once and in order.
C10_AllLinesCopied ==
    (job = "B" /\ pc \in {"done", "aborted"}) => copied = lines

=============================================================================
